---- MODULE Spec2Model ----
(***************************************************************************)
(* cryptotimed: RSA time-lock puzzle encryption.                           *)
(*                                                                         *)
(* The model follows the Go sources: the puzzle engine (tlp.go), the AEAD  *)
(* payload layer (encryption.go), the container codec (utils/file.go) and  *)
(* the two library operations EncryptFile and DecryptFile.  Files are byte *)
(* sequences with the widths of the Go types; big integers are kept small  *)
(* by drawing the RSA primes from a small set.                             *)
(***************************************************************************)
EXTENDS Integers, Sequences, FiniteSets, TLC

VARIABLES
    fs,      \* the file system: path -> bytes, for the paths that exist
    enc,     \* what the last EncryptFile call did (its inputs, trapdoor, result)
    tamper,  \* which stored field was altered after encryption ("none" if none)
    dec,     \* what the last DecryptFile call did (its inputs, effort, result)
    pz,      \* puzzle engine runs: the generated puzzle and the solver's result
    cod      \* codec runs: the record written and what reading it back gave

vars == <<fs, enc, tamper, dec, pz, cod>>

-----------------------------------------------------------------------------
(* Bounds of the model *)

MaxT == 4            \* work factors 0..MaxT
MaxModulus == 21     \* RSA moduli p*q of two distinct odd primes, up to MaxModulus
MaxPayloadLen == 1   \* payloads of at most this many bytes
MaxDataLen == 2      \* codec runs: data blobs of at most this many bytes
MaxVersion == 3      \* codec runs: version fields 0..MaxVersion
MaxSteps == 2        \* solver runs: work factors up to MaxSteps progress steps
MaxBatch == 32       \* solver runs: loop iterations taken in one step of the model
MaxCalls == 3        \* derivation runs: calls with the same inputs
MaxWorkers == 2      \* concurrent runs: goroutines
CounterBits == 16    \* solver runs: width of the loop counter (64 in the program)

-----------------------------------------------------------------------------
(* Program constants *)

Rsa2048Bytes == 256
CurrentVersion == 2
KdfNone == 0
KdfArgon2id == 1
NonceSize == 12
TagSize == 16
SaltSize == 16
KdfParamsSize == 8
LegacyEncKeySize == 48
LegacyNonceSize == 12
ProgressStep == 1048576

DefaultArgon2idParams ==
    [Memory |-> 65536, Time |-> 3, Parallelism |-> 1, KeyLen |-> 32]

ZeroArgon2idParams ==
    [Memory |-> 0, Time |-> 0, Parallelism |-> 0, KeyLen |-> 0]

-----------------------------------------------------------------------------
(* Bytes and integers *)

Byte == 0..255

Zeros(n) == [i \in 1..n |-> 0]

RECURSIVE Xor(_, _)
Xor(a, b) ==
    IF a = 0 THEN b
    ELSE IF b = 0 THEN a
    ELSE (((a % 2) + (b % 2)) % 2) + 2 * Xor(a \div 2, b \div 2)

RECURSIVE PutLittleEndian(_, _)
\* binary.Write(LittleEndian, v) of an unsigned integer of w bytes
PutLittleEndian(v, w) ==
    IF w = 0 THEN <<>> ELSE <<v % 256>> \o PutLittleEndian(v \div 256, w - 1)

\* binary.Read(LittleEndian, &v): the value, when it is below 2^24; the
\* model keeps larger values apart as TooBig and by the top two bytes.
TooBig == 16777216

LittleEndian(b) ==
    IF \E i \in 4..Len(b) : b[i] # 0 THEN TooBig
    ELSE b[1] + 256 * b[2] + 65536 * b[3]

\* big.Int.FillBytes(make([]byte, w)): big-endian, zero-padded (x < 2^24)
FillBytes(x, w) ==
    [i \in 1..w |-> IF i = w THEN x % 256
                    ELSE IF i = w - 1 THEN (x \div 256) % 256
                    ELSE IF i = w - 2 THEN (x \div 65536) % 256
                    ELSE 0]

\* big.Int.SetBytes: big-endian, any length
SetBytes(b) ==
    LET n == Len(b) IN
    IF \E i \in 1..(n - 3) : b[i] # 0 THEN TooBig
    ELSE (IF n >= 1 THEN b[n] ELSE 0)
       + (IF n >= 2 THEN 256 * b[n - 1] ELSE 0)
       + (IF n >= 3 THEN 65536 * b[n - 2] ELSE 0)

RECURSIVE GCD(_, _)
GCD(a, b) == IF b = 0 THEN a ELSE GCD(b, a % b)

RECURSIVE SumSeq(_, _)
\* sum of s[i] * (odd weight of position i), for the byte mixers below
SumSeq(s, w) ==
    IF s = <<>> THEN 0
    ELSE (Head(s) * (2 * ((w * Len(s)) % 64) + 1) + SumSeq(Tail(s), w)) % 256

-----------------------------------------------------------------------------
(* Library primitives.  SHA-256, Argon2id and ChaCha20-Poly1305 are        *)
(* modelled as byte mixers that are collision-free on the values the model *)
(* reaches: equal inputs give equal outputs, and a change of one input     *)
(* byte changes the output.                                                *)

Perm(b) == (b * 167 + 13) % 256

\* sha256.Sum256(buf): 32 bytes
Sha256(buf) ==
    LET n == Len(buf)
        at(k) == IF n >= k THEN buf[n - k + 1] ELSE 0
        high == IF \E i \in 1..(n - 3) : buf[i] # 0 THEN 1 ELSE 0
    IN [i \in 1..32 |-> IF i = 1 THEN Perm(at(1))
                        ELSE IF i = 2 THEN Perm(at(2))
                        ELSE IF i = 3 THEN Perm(at(3))
                        ELSE IF i = 4 THEN high
                        ELSE Perm(i)]

\* argon2.IDKey(password, salt, time, memory, threads, keyLen): it panics
\* when time < 1 or threads < 1, else returns keyLen bytes.
Argon2IDKey(password, salt, time, memory, threads, keyLen) ==
    IF time < 1 \/ threads < 1 THEN [err |-> "panic", key |-> <<>>]
    ELSE LET m == (SumSeq(password, 3) + 5 * SumSeq(salt, 7) + 17 * time
                    + 19 * (memory % 251) + 23 * threads + keyLen) % 256
         IN [err |-> "nil",
             key |-> [i \in 1..keyLen |-> IF i = keyLen THEN Perm(m)
                                          ELSE IF i = keyLen - 1 THEN m
                                          ELSE 0]]

\* The ChaCha20 key stream byte at position i
KeyStream(key, nonce, i) ==
    (SumSeq(key, 1) + 3 * SumSeq(nonce, 1) + 89 * i + 41) % 256

\* The Poly1305 tag over the ciphertext, under the one-time key of (key, nonce):
\* the tag bytes carry, in turn, a digest of the key, of the nonce and of the
\* ciphertext, so that a change in one of them is never undone by another.
Poly1305Tag(key, nonce, ct) ==
    LET dk == SumSeq(key, 2)
        dn == SumSeq(nonce, 3)
        dc == (SumSeq(ct, 5) + 7 * Len(ct)) % 256
    IN [j \in 1..TagSize |->
          ((IF j % 3 = 1 THEN dk ELSE IF j % 3 = 2 THEN dn ELSE dc) * (2 * j + 1) + j) % 256]

\* Seal with the tag put before the ciphertext
Seal_TagFirst(key, nonce, plaintext) ==
    LET ct == [i \in 1..Len(plaintext) |-> Xor(plaintext[i], KeyStream(key, nonce, i))]
    IN nonce \o Poly1305Tag(key, nonce, ct) \o ct

\* aead.Seal(nonce, nonce, plaintext, nil): nonce || ciphertext || tag
Seal(key, nonce, plaintext) ==
    LET ct == [i \in 1..Len(plaintext) |-> Xor(plaintext[i], KeyStream(key, nonce, i))]
    IN nonce \o ct \o Poly1305Tag(key, nonce, ct)

\* Open without the comparison of the tag
Open_NoTagCheck(key, nonce, sealed) ==
    IF Len(sealed) < TagSize
    THEN [err |-> "ErrOpen", plaintext |-> <<>>]
    ELSE LET ct == SubSeq(sealed, 1, Len(sealed) - TagSize)
         IN [err |-> "nil",
             plaintext |-> [i \in 1..Len(ct) |-> Xor(ct[i], KeyStream(key, nonce, i))]]

\* aead.Open(nil, nonce, sealed, nil)
Open(key, nonce, sealed) ==
    IF Len(sealed) < TagSize
    THEN [err |-> "ErrOpen", plaintext |-> <<>>]
    ELSE LET ct == SubSeq(sealed, 1, Len(sealed) - TagSize)
             tag == SubSeq(sealed, Len(sealed) - TagSize + 1, Len(sealed))
         IN IF tag # Poly1305Tag(key, nonce, ct)
            THEN [err |-> "ErrOpen", plaintext |-> <<>>]
            ELSE [err |-> "nil",
                  plaintext |-> [i \in 1..Len(ct) |-> Xor(ct[i], KeyStream(key, nonce, i))]]

-----------------------------------------------------------------------------
(* crypto/encryption.go *)

\* The nonce is what rand.Read returned.
EncryptData(key, plaintext, nonce) == Seal(key, nonce, plaintext)

DecryptData(key, ciphertext) ==
    IF Len(ciphertext) < NonceSize
    THEN [err |-> "ErrTooShort", plaintext |-> <<>>]
    ELSE Open(key, SubSeq(ciphertext, 1, NonceSize),
              SubSeq(ciphertext, NonceSize + 1, Len(ciphertext)))

-----------------------------------------------------------------------------
(* crypto/tlp.go *)

IsPrime(n) == n >= 2 /\ \A d \in 2..(n - 1) : n % d # 0

\* rsa.GenerateKey: two distinct odd primes (the model's are small)
RsaKeys ==
    { [N |-> p * q, Primes |-> <<p, q>>] :
        <<p, q>> \in { pq \in (3..MaxModulus) \X (3..MaxModulus) :
                         /\ IsPrime(pq[1]) /\ IsPrime(pq[2])
                         /\ pq[1] < pq[2] /\ pq[1] * pq[2] <= MaxModulus } }

\* The 16 salt bytes and the 12 nonce bytes rand.Read may return
RandomSalts == { [i \in 1..SaltSize |-> b] : b \in {0, 17} }
RandomNonces == { [i \in 1..NonceSize |-> b] : b \in {0, 201} }

NoPuzzle ==
    [N |-> 0, G |-> 0, T |-> 0, Target |-> 0, Salt |-> Zeros(SaltSize),
     KdfID |-> 0, KdfParams |-> ZeroArgon2idParams]

RECURSIVE powTwoModLoop(_, _, _, _)
powTwoModLoop(m, e, res, base) ==
    IF e = 0 THEN res
    ELSE powTwoModLoop(m, e \div 2,
                       IF e % 2 = 1 THEN (res * base) % m ELSE res,
                       (base * base) % m)

\* powTwoMod with the result started at the base instead of 1
powTwoMod_ResultStartsAtBase(m, t) == powTwoModLoop(m, t, 2, 2)

\* 2^t mod m by binary exponentiation
powTwoMod(m, t) == powTwoModLoop(m, t, 1, 2)

RECURSIVE Exp(_, _, _)
\* big.Int.Exp(x, y, m) = x^y mod m, for m > 0
Exp(x, y, m) ==
    IF y = 0 THEN 1 % m
    ELSE LET h == Exp(x, y \div 2, m)
         IN IF y % 2 = 1 THEN (((h * h) % m) * (x % m)) % m ELSE (h * h) % m

\* rand.Int(r, N-2) is uniform in [0, N-3]; adding two gives [2, N-1]
randomCoprime(N) == { g \in 2..(N - 1) : GCD(g, N) = 1 }

RECURSIVE deriveBaseLoop(_, _, _)
deriveBaseLoop(g0, N, seen) ==
    IF GCD(g0, N) = 1 THEN [err |-> "nil", G |-> g0]
    ELSE IF g0 \in seen THEN [err |-> "hang", G |-> 0]
    ELSE LET g1 == IF g0 + 1 >= N - 1 THEN 2 ELSE g0 + 1
         IN deriveBaseLoop(g1, N, seen \cup {g0})

Abs(x) == IF x < 0 THEN 0 - x ELSE x

\* deriveBaseFromPassword without the shift of g0 into [2, N-2]
deriveBaseFromPassword_NoShift(password, salt, kdfParams, N) ==
    LET km == Argon2IDKey(password, salt, kdfParams.Time, kdfParams.Memory,
                          kdfParams.Parallelism, kdfParams.KeyLen)
        nMinus3 == N - 3
    IN IF km.err # "nil" THEN [err |-> "panic", G |-> 0]
       ELSE IF nMinus3 = 0 THEN [err |-> "panic", G |-> 0]
       ELSE deriveBaseLoop(SetBytes(km.key) % Abs(nMinus3), N, {})

deriveBaseFromPassword(password, salt, kdfParams, N) ==
    LET km == Argon2IDKey(password, salt, kdfParams.Time, kdfParams.Memory,
                          kdfParams.Parallelism, kdfParams.KeyLen)
        nMinus3 == N - 3
    IN IF km.err # "nil" THEN [err |-> "panic", G |-> 0]
       ELSE IF nMinus3 = 0 THEN [err |-> "panic", G |-> 0]
       ELSE deriveBaseLoop((SetBytes(km.key) % Abs(nMinus3)) + 2, N, {})

DeriveBaseFromPassword(password, salt, kdfParams, N) ==
    deriveBaseFromPassword(password, salt, kdfParams, N)

\* The password branch left out: every puzzle gets a random base
GeneratePuzzle_RandomBase(t, password) ==
    UNION { { [puzzle |-> [N |-> priv.N, G |-> G, T |-> t,
                           Target |-> Exp(G, powTwoMod((priv.Primes[1] - 1)
                                                       * (priv.Primes[2] - 1), t),
                                          priv.N),
                           Salt |-> Zeros(SaltSize), KdfID |-> 0,
                           KdfParams |-> ZeroArgon2idParams],
               priv |-> priv] : G \in randomCoprime(priv.N) } : priv \in RsaKeys }

\* The puzzles GeneratePuzzle(t, password) may return, each with the private
\* key it returns beside it.
GeneratePuzzle(t, password) ==
    LET phiN(priv) == (priv.Primes[1] - 1) * (priv.Primes[2] - 1)
        finish(priv, G, salt, kdfID, kdfParams) ==
            [puzzle |-> [N |-> priv.N, G |-> G, T |-> t,
                         Target |-> Exp(G, powTwoMod(phiN(priv), t), priv.N),
                         Salt |-> salt, KdfID |-> kdfID, KdfParams |-> kdfParams],
             priv |-> priv]
    IN IF Len(password) = 0
       THEN UNION { { finish(priv, G, Zeros(SaltSize), 0, ZeroArgon2idParams) :
                        G \in randomCoprime(priv.N) } : priv \in RsaKeys }
       ELSE { finish(ps[1], deriveBaseFromPassword(password, ps[2],
                                DefaultArgon2idParams, ps[1].N).G,
                     ps[2], 1, DefaultArgon2idParams) :
                ps \in RsaKeys \X RandomSalts }

\* The progress test without the completion case
ProgressDue_NoCompletion(i, T) == (i + 1) % ProgressStep = 0

\* The progress test taken on the iteration index instead of the count done
ProgressDue_OnIndex(i, T) == i % ProgressStep = 0 \/ i + 1 = T

\* The test, in iteration i of the solver's loop, that decides a progress call
ProgressDue(i, T) == (i + 1) % ProgressStep = 0 \/ i + 1 = T

RECURSIVE SolveLoop(_, _, _, _, _)
SolveLoop(p, hasProgress, i, result, calls) ==
    IF ~(i < p.T) THEN [err |-> "nil", result |-> result, squarings |-> i, calls |-> calls]
    ELSE IF p.N = 0 THEN [err |-> "panic", result |-> 0, squarings |-> i, calls |-> calls]
    ELSE SolveLoop(p, hasProgress, i + 1, (result * result) % p.N,
                   IF hasProgress /\ ProgressDue(i, p.T)
                   THEN Append(calls, i + 1) ELSE calls)

RECURSIVE SolveIterations(_, _, _, _, _, _)
\* At most n further iterations of the solver's loop, from iteration i on (N > 0)
SolveIterations(p, hasProgress, i, result, calls, n) ==
    IF n = 0 \/ ~(i < p.T) THEN [i |-> i, result |-> result, calls |-> calls]
    ELSE SolveIterations(p, hasProgress, i + 1, (result * result) % p.N,
                         IF hasProgress /\ ProgressDue(i, p.T)
                         THEN Append(calls, i + 1) ELSE calls,
                         n - 1)

\* The loop condition with the bound taken inclusively
LoopContinues_Inclusive(i, T) == i <= T

\* The loop condition of SolvePuzzle: i < p.T
LoopContinues(i, T) == i < T

\* The values of the loop counter: an unsigned word of CounterBits bits
CounterModulus == 2 ^ CounterBits

\* SolvePuzzle with the loop bound taken inclusively (i <= T)
SolvePuzzle_InclusiveBound(p, hasProgress) ==
    SolveLoop([p EXCEPT !.T = @ + 1], hasProgress, 0, p.G, <<>>)

\* T sequential squarings from G; calls is what the progress callback received
SolvePuzzle(p, hasProgress) == SolveLoop(p, hasProgress, 0, p.G, <<>>)

DerivePuzzleKey(target) == Sha256(FillBytes(target, Rsa2048Bytes))

\* Big-endian u32 memory || u32 time
PutBigEndian32(v) ==
    <<(v \div 16777216) % 256, (v \div 65536) % 256, (v \div 256) % 256, v % 256>>

BigEndian32(b) ==
    IF b[1] >= 128 THEN 2147483647
    ELSE ((b[1] * 256 + b[2]) * 256 + b[3]) * 256 + b[4]

\* The two words written in the other order
EncodeKdfParams_TimeFirst(params) ==
    PutBigEndian32(params.Time) \o PutBigEndian32(params.Memory)

EncodeKdfParams(params) == PutBigEndian32(params.Memory) \o PutBigEndian32(params.Time)

DecodeKdfParams(encoded) ==
    [Memory |-> BigEndian32(SubSeq(encoded, 1, 4)),
     Time |-> BigEndian32(SubSeq(encoded, 5, 8)),
     Parallelism |-> DefaultArgon2idParams.Parallelism,
     KeyLen |-> DefaultArgon2idParams.KeyLen]

-----------------------------------------------------------------------------
(* types.EncryptedFile and utils/file.go *)

NoEncryptedFile ==
    [Version |-> 0, WorkFactor |-> 0, ModulusN |-> Zeros(Rsa2048Bytes),
     BaseG |-> Zeros(Rsa2048Bytes), KeyRequired |-> 0, Salt |-> Zeros(SaltSize),
     KdfID |-> 0, KdfParams |-> Zeros(KdfParamsSize), Data |-> <<>>]

\* WriteEncryptedFile with the scalar fields in big-endian byte order
WriteEncryptedFile_BigEndian(ef) ==
    LET rev(b) == [i \in 1..Len(b) |-> b[Len(b) + 1 - i]]
    IN rev(PutLittleEndian(ef.Version, 4))
       \o rev(PutLittleEndian(ef.WorkFactor, 8))
       \o ef.ModulusN
       \o ef.BaseG
       \o <<ef.KeyRequired>>
       \o ef.Salt
       \o <<ef.KdfID>>
       \o ef.KdfParams
       \o rev(PutLittleEndian(Len(ef.Data), 8))
       \o ef.Data

\* WriteEncryptedFile without the KDF fields
WriteEncryptedFile_NoKdf(ef) ==
    PutLittleEndian(ef.Version, 4)
    \o PutLittleEndian(ef.WorkFactor, 8)
    \o ef.ModulusN
    \o ef.BaseG
    \o <<ef.KeyRequired>>
    \o ef.Salt
    \o PutLittleEndian(Len(ef.Data), 8)
    \o ef.Data

\* The bytes WriteEncryptedFile hands to WriteFile
WriteEncryptedFile(ef) ==
    PutLittleEndian(ef.Version, 4)
    \o PutLittleEndian(ef.WorkFactor, 8)
    \o ef.ModulusN
    \o ef.BaseG
    \o <<ef.KeyRequired>>
    \o ef.Salt
    \o <<ef.KdfID>>
    \o ef.KdfParams
    \o PutLittleEndian(Len(ef.Data), 8)
    \o ef.Data

\* binary.Read / io.ReadFull of n bytes at offset off (0-based) of data:
\* io.EOF when nothing is left, io.ErrUnexpectedEOF when too little is.
ReadErr(data, off, n) ==
    IF n = 0 \/ off + n <= Len(data) THEN "nil"
    ELSE IF off >= Len(data) THEN "EOF"
    ELSE "ErrUnexpectedEOF"

Field(data, off, n) == SubSeq(data, off + 1, off + n)

RECURSIVE FirstReadErr(_, _, _)
\* The error of the first of the consecutive reads of the given widths that fails
FirstReadErr(data, off, widths) ==
    IF widths = <<>> THEN "nil"
    ELSE IF ReadErr(data, off, Head(widths)) # "nil" THEN ReadErr(data, off, Head(widths))
    ELSE FirstReadErr(data, off + Head(widths), Tail(widths))

\* ReadEncryptedFile on the bytes ReadFile returned
ReadEncryptedFile(data) ==
    LET common == <<4, 8, Rsa2048Bytes, Rsa2048Bytes, 1>>
        offKey == 4 + 8 + Rsa2048Bytes + Rsa2048Bytes
        offTail == offKey + 1
        fail(e) == [err |-> e, ef |-> NoEncryptedFile]
    IN IF FirstReadErr(data, 0, common) # "nil"
       THEN fail(FirstReadErr(data, 0, common))
       ELSE
       LET version == LittleEndian(Field(data, 0, 4))
           v2 == version >= 2
           tail == IF v2 THEN <<SaltSize, 1, KdfParamsSize, 8>>
                   ELSE <<LegacyEncKeySize, LegacyNonceSize, 8>>
           offLen == offTail + (IF v2 THEN SaltSize + 1 + KdfParamsSize
                                ELSE LegacyEncKeySize + LegacyNonceSize)
           offData == offLen + 8
       IN IF FirstReadErr(data, offTail, tail) # "nil"
          THEN fail(FirstReadErr(data, offTail, tail))
          ELSE
          LET lenBytes == Field(data, offLen, 8)
              dataLen == LittleEndian(lenBytes)
          IN IF lenBytes[7] # 0 \/ lenBytes[8] # 0
             THEN fail("panic")   \* make([]byte, dataLen): len out of range
             ELSE IF ReadErr(data, offData, dataLen) # "nil"
             THEN fail(ReadErr(data, offData, dataLen))
             ELSE [err |-> "nil",
                   ef |-> [Version |-> version,
                           WorkFactor |-> LittleEndian(Field(data, 4, 8)),
                           ModulusN |-> Field(data, 12, Rsa2048Bytes),
                           BaseG |-> Field(data, 12 + Rsa2048Bytes, Rsa2048Bytes),
                           KeyRequired |-> data[offKey + 1],
                           Salt |-> IF v2 THEN Field(data, offTail, SaltSize)
                                    ELSE Zeros(SaltSize),
                           KdfID |-> IF v2 THEN data[offTail + SaltSize + 1] ELSE KdfNone,
                           KdfParams |-> IF v2 THEN Field(data, offTail + SaltSize + 1,
                                                          KdfParamsSize)
                                         ELSE Zeros(KdfParamsSize),
                           Data |-> Field(data, offData, dataLen)]]

PuzzleFromEncryptedFile(ef) ==
    [N |-> SetBytes(ef.ModulusN), G |-> SetBytes(ef.BaseG), T |-> ef.WorkFactor,
     Target |-> 0, Salt |-> ef.Salt, KdfID |-> ef.KdfID,
     KdfParams |-> IF ef.KdfID = KdfArgon2id THEN DecodeKdfParams(ef.KdfParams)
                   ELSE ZeroArgon2idParams]

PuzzleToBytes(puzzle) ==
    <<FillBytes(puzzle.N, Rsa2048Bytes), FillBytes(puzzle.G, Rsa2048Bytes)>>

\* "@file:"
FilePrefix == <<64, 102, 105, 108, 101, 58>>

\* ParseKeyInput: the key bytes, read from the files of f for an @file: input
ParseKeyInput(keyInput, f) ==
    IF keyInput = <<>> THEN [err |-> "nil", key |-> <<>>]
    ELSE IF Len(keyInput) > 6 /\ SubSeq(keyInput, 1, 6) = FilePrefix
    THEN LET filepath == SubSeq(keyInput, 7, Len(keyInput))
         IN IF filepath \in DOMAIN f THEN [err |-> "nil", key |-> f[filepath]]
            ELSE [err |-> "ErrNotExist", key |-> <<>>]
    ELSE [err |-> "nil", key |-> keyInput]

-----------------------------------------------------------------------------
(* operations/encrypt.go and operations/decrypt.go *)

\* ".locked" and ".decrypted"
LockedSuffix == <<46, 108, 111, 99, 107, 101, 100>>
DecryptedSuffix == <<46, 100, 101, 99, 114, 121, 112, 116, 101, 100>>

HasSuffix(s, suffix) ==
    Len(s) >= Len(suffix) /\ SubSeq(s, Len(s) - Len(suffix) + 1, Len(s)) = suffix

TrimSuffix(s, suffix) ==
    IF HasSuffix(s, suffix) THEN SubSeq(s, 1, Len(s) - Len(suffix)) ELSE s

WriteFile(f, filename, data) ==
    [x \in DOMAIN f \cup {filename} |-> IF x = filename THEN data ELSE f[x]]

\* The outcomes of EncryptFile(opts) on the file system f: one for every
\* puzzle GeneratePuzzle may return and every nonce EncryptData may draw.
EncryptFile(opts, f) ==
    LET userKey == ParseKeyInput(opts.KeyInput, f)
        fail(e) == [err |-> e, fs |-> f, OutputFile |-> <<>>, KeyRequired |-> 0,
                    userKeyRaw |-> <<>>, plaintext |-> <<>>,
                    puzzle |-> NoPuzzle, priv |-> [N |-> 0, Primes |-> <<0, 0>>]]
    IN IF userKey.err # "nil" THEN { fail("ErrParseKey") }
       ELSE IF opts.InputFile \notin DOMAIN f THEN { fail("ErrReadInput") }
       ELSE
       LET plaintext == f[opts.InputFile]
           keyRequired == IF Len(userKey.key) > 0 THEN 1 ELSE 0
           outputFile == opts.InputFile \o LockedSuffix
           ef(puzzle, nonce) ==
               [Version |-> CurrentVersion,
                WorkFactor |-> opts.WorkFactor,
                ModulusN |-> PuzzleToBytes(puzzle)[1],
                BaseG |-> PuzzleToBytes(puzzle)[2],
                KeyRequired |-> keyRequired,
                Salt |-> puzzle.Salt,
                KdfID |-> 0,
                KdfParams |-> Zeros(KdfParamsSize),
                Data |-> EncryptData(DerivePuzzleKey(puzzle.Target), plaintext, nonce)]
       IN { [err |-> "nil",
             fs |-> WriteFile(f, outputFile, WriteEncryptedFile(ef(gn[1].puzzle, gn[2]))),
             OutputFile |-> outputFile, KeyRequired |-> keyRequired,
             userKeyRaw |-> userKey.key, plaintext |-> plaintext,
             puzzle |-> gn[1].puzzle, priv |-> gn[1].priv] :
            gn \in GeneratePuzzle(opts.WorkFactor, userKey.key) \X RandomNonces }

\* cmd.EncryptCommand on the parsed flags: the outcomes of the command, in
\* the shape of EncryptFile's
EncryptCommand(flags, f) ==
    LET fail(e) == [err |-> e, fs |-> f, OutputFile |-> <<>>, KeyRequired |-> 0,
                    userKeyRaw |-> <<>>, plaintext |-> <<>>,
                    puzzle |-> NoPuzzle, priv |-> [N |-> 0, Primes |-> <<0, 0>>]]
    IN IF flags.input = <<>> THEN { fail("ErrInputRequired") }
       ELSE IF flags.work = 0 THEN { fail("ErrWorkRequired") }
       ELSE EncryptFile([InputFile |-> flags.input, WorkFactor |-> flags.work,
                         KeyInput |-> flags.key], f)

\* The key-required test left out
KeyMissing_Never(ef, keyInput) == FALSE

\* decrypt.go:48
KeyMissing(ef, keyInput) == ef.KeyRequired = 1 /\ keyInput = <<>>

\* The stray key kept and parsed
EffectiveKeyInput_Keeps(ef, keyInput) == keyInput

\* decrypt.go:51-54: a key given for a puzzle-only record is dropped
EffectiveKeyInput(ef, keyInput) ==
    IF ef.KeyRequired = 0 /\ keyInput # <<>> THEN <<>> ELSE keyInput

\* decrypt.go:66
UsesPasswordBase(ef) == ef.Version >= 2 /\ ef.KeyRequired = 1

\* Two trailing ".locked" removed instead of one
DecryptOutputFile_TrimTwice(opts) ==
    IF opts.OutputFile # <<>> THEN opts.OutputFile
    ELSE IF HasSuffix(opts.InputFile, LockedSuffix)
    THEN TrimSuffix(TrimSuffix(opts.InputFile, LockedSuffix), LockedSuffix)
    ELSE opts.InputFile \o DecryptedSuffix

\* The error of DecryptData disregarded
OpenFailed_Ignored(opened) == FALSE

\* decrypt.go:87-90: the test on DecryptData's error, before the write
OpenFailed(opened) == opened.err # "nil"

\* decrypt.go:31-39
DecryptOutputFile(opts) ==
    IF opts.OutputFile # <<>> THEN opts.OutputFile
    ELSE IF HasSuffix(opts.InputFile, LockedSuffix)
    THEN TrimSuffix(opts.InputFile, LockedSuffix)
    ELSE opts.InputFile \o DecryptedSuffix

\* DecryptFile(opts, progressCallback) on the file system f.  squarings and
\* calls are the solver's effort and what the progress callback received.
DecryptFile(opts, hasProgress, f) ==
    LET outputFile == DecryptOutputFile(opts)
        fail(e, sq, calls) ==
            [err |-> e, fs |-> f, OutputFile |-> outputFile, plaintext |-> <<>>,
             WorkFactor |-> 0, squarings |-> sq, calls |-> calls, wrote |-> FALSE]
    IN IF opts.InputFile \notin DOMAIN f THEN fail("ErrReadEncrypted", 0, <<>>)
       ELSE
       LET rd == ReadEncryptedFile(f[opts.InputFile])
           ef == rd.ef
       IN IF rd.err = "panic" THEN fail("panic", 0, <<>>)
          ELSE IF rd.err # "nil" THEN fail("ErrReadEncrypted", 0, <<>>)
          ELSE IF KeyMissing(ef, opts.KeyInput) THEN fail("ErrKeyRequired", 0, <<>>)
          ELSE
          LET userKey == ParseKeyInput(EffectiveKeyInput(ef, opts.KeyInput), f)
              fromFile == PuzzleFromEncryptedFile(ef)
              derived == IF UsesPasswordBase(ef) /\ Len(userKey.key) > 0
                         THEN DeriveBaseFromPassword(userKey.key, ef.Salt,
                                                     fromFile.KdfParams, fromFile.N)
                         ELSE [err |-> "nil", G |-> fromFile.G]
              puzzle == [fromFile EXCEPT !.G = derived.G]
          IN IF userKey.err # "nil" THEN fail("ErrParseKey", 0, <<>>)
             ELSE IF UsesPasswordBase(ef) /\ Len(userKey.key) = 0
             THEN fail("ErrPasswordRequired", 0, <<>>)
             ELSE IF derived.err # "nil" THEN fail(derived.err, 0, <<>>)
             ELSE
             LET solved == SolvePuzzle(puzzle, hasProgress)
                 opened == DecryptData(DerivePuzzleKey(solved.result), ef.Data)
             IN IF solved.err # "nil" THEN fail(solved.err, solved.squarings, solved.calls)
                ELSE IF OpenFailed(opened)
                THEN fail("ErrDecryptFailed", solved.squarings, solved.calls)
                ELSE [err |-> "nil",
                      fs |-> WriteFile(f, outputFile, opened.plaintext),
                      OutputFile |-> outputFile, plaintext |-> opened.plaintext,
                      WorkFactor |-> ef.WorkFactor, squarings |-> solved.squarings,
                      calls |-> solved.calls, wrote |-> TRUE]

-----------------------------------------------------------------------------
(* The workflow: one encryption, at most one alteration of the stored      *)
(* record, one decryption.                                                 *)

\* "in", "out", the key file "k" (it holds "b") and the missing key file "m"
InPath == <<105, 110>>
OutPath == <<111, 117, 116>>
KeyPath == <<107>>
LockedPath == InPath \o LockedSuffix

Payloads == UNION { [1..n -> {72}] : n \in 0..MaxPayloadLen }

EncryptKeyInputs == { <<>>, <<97>>, FilePrefix \o KeyPath, FilePrefix \o <<109>> }
DecryptKeyInputs == { <<>>, <<97>>, <<98>>, FilePrefix \o KeyPath, FilePrefix \o <<109>> }

NoEnc == [state |-> "idle"]
NoDec == [state |-> "idle"]
NoPz == [state |-> "idle"]
NoCod == [state |-> "idle"]

Init ==
    /\ fs \in { (InPath :> P) @@ (KeyPath :> <<98>>) : P \in Payloads }
    /\ enc = NoEnc
    /\ tamper = "none"
    /\ dec = NoDec
    /\ pz = NoPz
    /\ cod = NoCod

DoEncrypt(T, K) ==
    /\ enc.state = "idle"
    /\ \E r \in EncryptFile([InputFile |-> InPath, WorkFactor |-> T, KeyInput |-> K], fs) :
            /\ fs' = r.fs
            /\ enc' = [state |-> "done", err |-> r.err, WorkFactor |-> T, KeyInput |-> K,
                       userKeyRaw |-> r.userKeyRaw, plaintext |-> r.plaintext,
                       KeyRequired |-> r.KeyRequired, OutputFile |-> r.OutputFile,
                       puzzle |-> r.puzzle, priv |-> r.priv]
    /\ UNCHANGED <<tamper, dec, pz, cod>>

\* data with the bytes at offset off (0-based) replaced
Splice(data, off, bytes) ==
    [i \in 1..Len(data) |-> IF i > off /\ i <= off + Len(bytes) THEN bytes[i - off]
                            ELSE data[i]]

FlipBit(b, bit) ==
    LET w == IF bit = 0 THEN 1 ELSE IF bit = 1 THEN 2 ELSE IF bit = 2 THEN 4
             ELSE IF bit = 3 THEN 8 ELSE IF bit = 4 THEN 16 ELSE IF bit = 5 THEN 32
             ELSE IF bit = 6 THEN 64 ELSE 128
    IN IF (b \div w) % 2 = 1 THEN b - w ELSE b + w

\* Offsets (0-based) of the fields of a version 2 record, as written
OffWorkFactor == 4
OffModulusN == 12
OffBaseG == 12 + Rsa2048Bytes
OffKeyRequired == 12 + 2 * Rsa2048Bytes
OffSalt == OffKeyRequired + 1
OffKdfID == OffSalt + SaltSize
OffKdfParams == OffKdfID + 1
OffDataLen == OffKdfParams + KdfParamsSize
OffData == OffDataLen + 8

CanTamper ==
    /\ enc.state = "done" /\ enc.err = "nil"
    /\ tamper = "none"
    /\ dec.state = "idle"

Alter(kind, off, bytes) ==
    /\ CanTamper
    /\ Field(fs[LockedPath], off, Len(bytes)) # bytes
    /\ fs' = [fs EXCEPT ![LockedPath] = Splice(@, off, bytes)]
    /\ tamper' = kind
    /\ UNCHANGED <<enc, dec, pz, cod>>

TamperWorkFactor == \E t \in 0..MaxT : Alter("work_factor", OffWorkFactor, PutLittleEndian(t, 8))

TamperModulus ==
    /\ CanTamper
    /\ \E n \in {0, enc.puzzle.N + 2} \cup { k.N : k \in RsaKeys } :
          Alter("modulus", OffModulusN, FillBytes(n, Rsa2048Bytes))

TamperSalt == \E b \in {0, 17, 34} : Alter("salt", OffSalt, [i \in 1..SaltSize |-> b])

TamperVersion == \E v \in 0..MaxVersion : Alter("version", 0, PutLittleEndian(v, 4))

TamperKeyRequired == \E k \in 0..2 : Alter("key_required", OffKeyRequired, <<k>>)

TamperBaseG ==
    /\ CanTamper
    /\ \E g \in {2, enc.puzzle.N - enc.puzzle.G} :
          Alter("base_g", OffBaseG, FillBytes(g, Rsa2048Bytes))

TamperKdf ==
    \/ \E id \in {KdfNone, KdfArgon2id, 2} : Alter("kdf_id", OffKdfID, <<id>>)
    \/ Alter("kdf_params", OffKdfParams, EncodeKdfParams(DefaultArgon2idParams))

\* One bit of the data blob (nonce, ciphertext or tag) is flipped
TamperData ==
    /\ CanTamper
    /\ \E pos \in (OffData + 1)..Len(fs[LockedPath]), bit \in {0, 7} :
          fs' = [fs EXCEPT ![LockedPath] = [@ EXCEPT ![pos] = FlipBit(@, bit)]]
    /\ tamper' = "data"
    /\ UNCHANGED <<enc, dec, pz, cod>>

DoDecrypt(K) ==
    /\ enc.state = "done"
    /\ dec.state = "idle"
    /\ \E r \in { DecryptFile([InputFile |-> LockedPath, KeyInput |-> K,
                               OutputFile |-> OutPath], TRUE, fs) } :
            /\ fs' = r.fs
            /\ dec' = [state |-> "done", err |-> r.err, KeyInput |-> K,
                       OutputFile |-> r.OutputFile, plaintext |-> r.plaintext,
                       squarings |-> r.squarings, calls |-> r.calls, wrote |-> r.wrote]
    /\ UNCHANGED <<enc, tamper, pz, cod>>

Encrypt == \E T \in 0..MaxT, K \in EncryptKeyInputs : DoEncrypt(T, K)

Decrypt == \E K \in DecryptKeyInputs : DoDecrypt(K)

Next ==
    \/ Encrypt
    \/ TamperSalt
    \/ TamperWorkFactor
    \/ TamperModulus
    \/ TamperVersion
    \/ TamperKeyRequired
    \/ TamperBaseG
    \/ TamperKdf
    \/ Decrypt

Spec == Init /\ [][Next]_vars

-----------------------------------------------------------------------------
(* Bit flips in the data blob: encryption with the smallest work factors,  *)
(* one flipped bit, decryption with the key input of the encryption.       *)

FlipEncrypt == \E T \in 0..1, K \in {<<>>, <<97>>} : DoEncrypt(T, K)

FlipDecrypt == DoDecrypt(enc.KeyInput)

NextFlip ==
    \/ FlipEncrypt
    \/ TamperData
    \/ FlipDecrypt

SpecFlip == Init /\ [][NextFlip]_vars

-----------------------------------------------------------------------------
(* The puzzle engine alone: GeneratePuzzle, then SolvePuzzle on its puzzle *)

InitPuzzle ==
    /\ fs = (KeyPath :> <<98>>)
    /\ enc = NoEnc
    /\ tamper = "none"
    /\ dec = NoDec
    /\ pz = NoPz
    /\ cod = NoCod

PuzzleGenerate ==
    /\ pz.state = "idle"
    /\ \E t \in 0..MaxT, password \in {<<>>, <<97>>, <<98>>} :
         \E r \in GeneratePuzzle(t, password) :
            pz' = [state |-> "generated", password |-> password,
                   puzzle |-> r.puzzle, priv |-> r.priv]
    /\ UNCHANGED <<fs, enc, tamper, dec, cod>>

PuzzleSolve ==
    /\ pz.state = "generated"
    /\ pz' = [pz EXCEPT !.state = "solved"] @@ [solved |-> SolvePuzzle(pz.puzzle, TRUE)]
    /\ UNCHANGED <<fs, enc, tamper, dec, cod>>

NextPuzzle ==
    \/ PuzzleGenerate
    \/ PuzzleSolve

SpecPuzzle == InitPuzzle /\ [][NextPuzzle]_vars

-----------------------------------------------------------------------------
(* One SolvePuzzle run, a batch of loop iterations at a time: work factors *)
(* around the progress step, with a progress callback.                     *)

SolveWorkFactors ==
    (0..MaxT) \cup {ProgressStep, ProgressStep + 1, MaxSteps * ProgressStep}

InitSolve ==
    /\ fs = (KeyPath :> <<98>>)
    /\ enc = NoEnc
    /\ tamper = "none"
    /\ dec = NoDec
    /\ cod = NoCod
    /\ pz \in { [state |-> "solving",
                  puzzle |-> [NoPuzzle EXCEPT !.N = 15, !.G = g, !.T = t],
                  hasProgress |-> TRUE, i |-> 0, result |-> g, calls |-> <<>>] :
                  g \in {2}, t \in SolveWorkFactors }

\* The next iterations of the loop, MaxBatch of them at most
SolveIterate ==
    /\ pz.state = "solving"
    /\ pz.i < pz.puzzle.T
    /\ \E r \in { SolveIterations(pz.puzzle, pz.hasProgress, pz.i, pz.result,
                                   pz.calls, MaxBatch) } :
          pz' = [pz EXCEPT !.i = r.i, !.result = r.result, !.calls = r.calls]
    /\ UNCHANGED <<fs, enc, tamper, dec, cod>>

\* The loop condition fails: SolvePuzzle returns result
SolveReturn ==
    /\ pz.state = "solving"
    /\ ~(pz.i < pz.puzzle.T)
    /\ pz' = [pz EXCEPT !.state = "returned"]
    /\ UNCHANGED <<fs, enc, tamper, dec, cod>>

NextSolve ==
    \/ SolveIterate
    \/ SolveReturn

SpecSolve == InitSolve /\ [][NextSolve]_vars

-----------------------------------------------------------------------------
(* One SolvePuzzle run with the loop counter kept in its machine word      *)

WordWorkFactors == {0, 1, 2, CounterModulus - 2, CounterModulus - 1}

InitWord ==
    /\ fs = (KeyPath :> <<98>>)
    /\ enc = NoEnc
    /\ tamper = "none"
    /\ dec = NoDec
    /\ cod = NoCod
    /\ pz \in { [state |-> "solving",
                  puzzle |-> [NoPuzzle EXCEPT !.N = 15, !.G = 2, !.T = t],
                  i |-> 0, done |-> 0, result |-> 2, wrapped |-> FALSE] :
                  t \in WordWorkFactors }

\* One iteration of the loop with the counter kept in its word: done counts
\* the squarings, wrapped tells whether i+1 ever left the word
WordIterate ==
    /\ pz.state = "solving"
    /\ LoopContinues(pz.i, pz.puzzle.T)
    /\ pz.done < CounterModulus
    /\ pz' = [pz EXCEPT !.i = (pz.i + 1) % CounterModulus,
                        !.done = @ + 1,
                        !.result = (@ * @) % pz.puzzle.N,
                        !.wrapped = @ \/ pz.i + 1 >= CounterModulus]
    /\ UNCHANGED <<fs, enc, tamper, dec, cod>>

\* The loop condition fails: SolvePuzzle returns result
WordReturn ==
    /\ pz.state = "solving"
    /\ ~LoopContinues(pz.i, pz.puzzle.T)
    /\ pz' = [pz EXCEPT !.state = "returned"]
    /\ UNCHANGED <<fs, enc, tamper, dec, cod>>

NextWord ==
    \/ WordIterate
    \/ WordReturn

SpecWord == InitWord /\ [][NextWord]_vars

\* A running call keeps running
SpecWordFair == SpecWord /\ WF_vars(NextWord)

-----------------------------------------------------------------------------
(* SolvePuzzle on a puzzle whose N and G are big.Int objects on the heap:  *)
(* the puzzle holds references, the solver squares an object of its own.   *)

\* The big.Int object that call number run allocates for its result
ResultCell(run) == IF run = 1 THEN "R1" ELSE "R2"

\* result := p.G, with no object of its own
NewResult_Alias(heap, p, run) == [heap |-> heap, ref |-> p.G]

\* result := new(big.Int).Set(p.G)
NewResult(heap, p, run) ==
    [heap |-> (ResultCell(run) :> heap[p.G]) @@ heap, ref |-> ResultCell(run)]

\* result.Mul(result, result); result.Mod(result, modulus)
SquareInPlace(heap, result, modulus) ==
    [heap EXCEPT ![result] = (heap[result] * heap[result]) % heap[modulus]]

\* The puzzle's fields as the caller reads them now
PuzzleNow ==
    [pz.puzzle EXCEPT !.N = pz.heap[pz.puzzle.N], !.G = pz.heap[pz.puzzle.G]]

InitFrame ==
    /\ fs = (KeyPath :> <<98>>)
    /\ enc = NoEnc
    /\ tamper = "none"
    /\ dec = NoDec
    /\ cod = NoCod
    /\ \E t \in 0..MaxT, password \in {<<>>, <<97>>} :
         \E g \in GeneratePuzzle(t, password) :
            pz = [state |-> "ready",
                  puzzle |-> [g.puzzle EXCEPT !.N = "N", !.G = "G"],
                  heap |-> ("N" :> g.puzzle.N) @@ ("G" :> g.puzzle.G),
                  before |-> g.puzzle,
                  run |-> 0, i |-> 0, result |-> "G", results |-> <<>>, seen |-> <<>>]

\* SolvePuzzle is called on the puzzle, a first or a second time
FrameCall ==
    /\ pz.state \in {"ready", "returned"}
    /\ pz.run < 2
    /\ \E r \in { NewResult(pz.heap, pz.puzzle, pz.run + 1) } :
          pz' = [pz EXCEPT !.state = "solving", !.run = @ + 1, !.i = 0,
                           !.heap = r.heap, !.result = r.ref]
    /\ UNCHANGED <<fs, enc, tamper, dec, cod>>

\* One iteration; seen is what the progress callback finds in the puzzle
FrameIterate ==
    /\ pz.state = "solving"
    /\ pz.i < pz.puzzle.T
    /\ \E h \in { SquareInPlace(pz.heap, pz.result, pz.puzzle.N) } :
          pz' = [pz EXCEPT !.heap = h, !.i = @ + 1,
                           !.seen = IF ProgressDue(pz.i, pz.puzzle.T)
                                    THEN Append(@, [pz.puzzle EXCEPT
                                                      !.N = h[pz.puzzle.N],
                                                      !.G = h[pz.puzzle.G]])
                                    ELSE @]
    /\ UNCHANGED <<fs, enc, tamper, dec, cod>>

FrameReturn ==
    /\ pz.state = "solving"
    /\ ~(pz.i < pz.puzzle.T)
    /\ pz' = [pz EXCEPT !.state = "returned",
                        !.results = Append(@, pz.heap[pz.result])]
    /\ UNCHANGED <<fs, enc, tamper, dec, cod>>

NextFrame ==
    \/ FrameCall
    \/ FrameIterate
    \/ FrameReturn

SpecFrame == InitFrame /\ [][NextFrame]_vars

-----------------------------------------------------------------------------
(* EncryptData and DecryptData alone: a plaintext is sealed, the blob is   *)
(* perhaps cut short or replaced by a short input, and it is opened.       *)

AeadKeys == { DerivePuzzleKey(1), DerivePuzzleKey(2), DerivePuzzleKey(4) }
AeadPlaintexts == UNION { [1..n -> {0, 72}] : n \in 0..MaxDataLen }

InitAead ==
    /\ fs = (KeyPath :> <<98>>)
    /\ enc = NoEnc
    /\ tamper = "none"
    /\ dec = NoDec
    /\ cod = NoCod
    /\ pz \in { [state |-> "plain", key |-> k, plaintext |-> P] :
                  k \in AeadKeys, P \in AeadPlaintexts }

AeadEncrypt ==
    /\ pz.state = "plain"
    /\ \E nonce \in RandomNonces :
         \E blob \in { EncryptData(pz.key, pz.plaintext, nonce) } :
            pz' = [state |-> "sealed", key |-> pz.key, plaintext |-> pz.plaintext,
                   nonce |-> nonce, blob |-> blob, input |-> blob, whole |-> TRUE]
    /\ UNCHANGED <<fs, enc, tamper, dec, cod>>

\* The input handed to DecryptData is a proper prefix of the blob
AeadCut ==
    /\ pz.state = "sealed" /\ pz.whole
    /\ \E k \in 0..(Len(pz.blob) - 1) :
          pz' = [pz EXCEPT !.input = SubSeq(pz.blob, 1, k), !.whole = FALSE]
    /\ UNCHANGED <<fs, enc, tamper, dec, cod>>

\* The input handed to DecryptData is a run of zero bytes
AeadForge ==
    /\ pz.state = "sealed" /\ pz.whole
    /\ \E k \in 0..(NonceSize + TagSize + MaxDataLen) :
          pz' = [pz EXCEPT !.input = Zeros(k), !.whole = FALSE]
    /\ UNCHANGED <<fs, enc, tamper, dec, cod>>

AeadDecrypt ==
    /\ pz.state = "sealed"
    /\ pz' = [pz EXCEPT !.state = "opened"]
               @@ [opened |-> DecryptData(pz.key, pz.input)]
    /\ UNCHANGED <<fs, enc, tamper, dec, cod>>

NextAead ==
    \/ AeadEncrypt
    \/ AeadCut
    \/ AeadForge
    \/ AeadDecrypt

SpecAead == InitAead /\ [][NextAead]_vars

-----------------------------------------------------------------------------
(* Decryption onto an output file that exists already: the record is       *)
(* written, perhaps damaged or removed, and decrypted to "out".            *)

\* What "out" holds before the decryption: "O"
OldOutput == <<79>>

InitOut ==
    /\ fs \in { (InPath :> P) @@ (KeyPath :> <<98>>) @@ (OutPath :> OldOutput) :
                 P \in Payloads }
    /\ enc = NoEnc
    /\ tamper = "none"
    /\ dec = NoDec
    /\ pz = NoPz
    /\ cod = NoCod

OutEncrypt == \E T \in 0..1, K \in EncryptKeyInputs : DoEncrypt(T, K)

\* The record loses its tail
OutCut ==
    /\ CanTamper
    /\ \E k \in {0, 3, OffData - 1, Len(fs[LockedPath]) - 1} :
          fs' = [fs EXCEPT ![LockedPath] = SubSeq(@, 1, k)]
    /\ tamper' = "cut"
    /\ UNCHANGED <<enc, dec, pz, cod>>

\* The record is removed
OutRemove ==
    /\ CanTamper
    /\ fs' = [x \in DOMAIN fs \ {LockedPath} |-> fs[x]]
    /\ tamper' = "removed"
    /\ UNCHANGED <<enc, dec, pz, cod>>

NextOut ==
    \/ OutEncrypt
    \/ TamperData
    \/ TamperBaseG
    \/ TamperKeyRequired
    \/ OutCut
    \/ OutRemove
    \/ Decrypt

SpecOut == InitOut /\ [][NextOut]_vars

-----------------------------------------------------------------------------
(* DeriveBaseFromPassword alone: the same inputs, given to it repeatedly   *)

DerivePasswords == { <<>>, <<97>>, <<98>>, <<97, 98>> }

DeriveSalts == { [i \in 1..SaltSize |-> b] : b \in {0, 17, 34, 51} }

DeriveParams ==
    { DefaultArgon2idParams,
      [Memory |-> 8, Time |-> 1, Parallelism |-> 1, KeyLen |-> 32],
      [Memory |-> 65536, Time |-> 3, Parallelism |-> 0, KeyLen |-> 32],
      ZeroArgon2idParams }

InitDerive ==
    /\ fs = (KeyPath :> <<98>>)
    /\ enc = NoEnc
    /\ tamper = "none"
    /\ dec = NoDec
    /\ cod = NoCod
    /\ pz \in { [state |-> "derive", password |-> pw, salt |-> salt,
                  kdfParams |-> kp, N |-> k.N, results |-> <<>>] :
                  pw \in DerivePasswords, salt \in DeriveSalts,
                  kp \in DeriveParams, k \in RsaKeys }

DeriveCall ==
    /\ pz.state = "derive"
    /\ Len(pz.results) < MaxCalls
    /\ pz' = [pz EXCEPT !.results =
                 Append(@, DeriveBaseFromPassword(pz.password, pz.salt, pz.kdfParams, pz.N))]
    /\ UNCHANGED <<fs, enc, tamper, dec, cod>>

NextDerive == DeriveCall

SpecDerive == InitDerive /\ [][NextDerive]_vars

-----------------------------------------------------------------------------
(* EncodeKdfParams and DecodeKdfParams alone *)

KdfMemories == {0, 1, 255, 256, 65536, 16777216, 2147483647}
KdfTimes == {0, 1, 3, 256, 65537}
KdfParallelisms == {0, 1, 2, 4}
KdfKeyLens == {0, 16, 32, 64}

InitKdf ==
    /\ fs = (KeyPath :> <<98>>)
    /\ enc = NoEnc
    /\ tamper = "none"
    /\ dec = NoDec
    /\ cod = NoCod
    /\ pz \in { [state |-> "params",
                  params |-> [Memory |-> m, Time |-> t, Parallelism |-> p, KeyLen |-> k]] :
                  m \in KdfMemories, t \in KdfTimes,
                  p \in KdfParallelisms, k \in KdfKeyLens }

KdfEncode ==
    /\ pz.state = "params"
    /\ pz' = [state |-> "encoded", params |-> pz.params,
              encoded |-> EncodeKdfParams(pz.params)]
    /\ UNCHANGED <<fs, enc, tamper, dec, cod>>

KdfDecode ==
    /\ pz.state = "encoded"
    /\ pz' = [state |-> "decoded", params |-> pz.params, encoded |-> pz.encoded,
              decoded |-> DecodeKdfParams(pz.encoded)]
    /\ UNCHANGED <<fs, enc, tamper, dec, cod>>

NextKdf ==
    \/ KdfEncode
    \/ KdfDecode

SpecKdf == InitKdf /\ [][NextKdf]_vars

-----------------------------------------------------------------------------
(* File naming: a file is encrypted, the record is perhaps renamed, and it *)
(* is decrypted with or without an explicit output path.                   *)

\* "a", "d/a", ".h", "a.locked", ".locked", "a.locked.locked", "a.decrypted"
NamePaths ==
    { <<97>>, <<100, 47, 97>>, <<46, 104>>, <<97>> \o LockedSuffix, LockedSuffix,
      <<97>> \o LockedSuffix \o LockedSuffix, <<97>> \o DecryptedSuffix }

\* "r", "r.locked", "r.lockedx", "locked"
RenamePaths ==
    { <<114>>, <<114>> \o LockedSuffix, <<114>> \o LockedSuffix \o <<120>>,
      <<108, 111, 99, 107, 101, 100>> }

InitNames ==
    /\ fs \in { (F :> <<72>>) @@ (KeyPath :> <<98>>) : F \in NamePaths }
    /\ enc = NoEnc
    /\ tamper = "none"
    /\ dec = NoDec
    /\ pz = NoPz
    /\ cod = NoCod

NameEncrypt ==
    /\ enc.state = "idle"
    /\ \E F \in DOMAIN fs \ {KeyPath} :
         \E r \in EncryptFile([InputFile |-> F, WorkFactor |-> 0, KeyInput |-> <<>>], fs) :
            /\ fs' = r.fs
            /\ enc' = [state |-> "done", err |-> r.err, WorkFactor |-> 0,
                       KeyInput |-> <<>>, userKeyRaw |-> r.userKeyRaw,
                       plaintext |-> r.plaintext, KeyRequired |-> r.KeyRequired,
                       OutputFile |-> r.OutputFile, puzzle |-> r.puzzle, priv |-> r.priv]
            /\ pz' = [state |-> "named", InputFile |-> F, record |-> r.OutputFile,
                      renamed |-> FALSE]
    /\ UNCHANGED <<tamper, dec, cod>>

\* os.Rename of the record
NameRename ==
    /\ enc.state = "done" /\ enc.err = "nil"
    /\ dec.state = "idle"
    /\ ~pz.renamed
    /\ \E to \in RenamePaths :
          /\ fs' = [x \in (DOMAIN fs \ {pz.record}) \cup {to} |->
                       IF x = to THEN fs[pz.record] ELSE fs[x]]
          /\ pz' = [pz EXCEPT !.record = to, !.renamed = TRUE]
    /\ UNCHANGED <<enc, tamper, dec, cod>>

NameDecrypt ==
    /\ enc.state = "done" /\ enc.err = "nil"
    /\ dec.state = "idle"
    /\ \E out \in {<<>>, OutPath} :
         \E r \in { DecryptFile([InputFile |-> pz.record, KeyInput |-> <<>>,
                                  OutputFile |-> out], FALSE, fs) } :
            /\ fs' = r.fs
            /\ dec' = [state |-> "done", err |-> r.err, KeyInput |-> <<>>,
                       InputFile |-> pz.record, explicit |-> out,
                       OutputFile |-> r.OutputFile, plaintext |-> r.plaintext,
                       squarings |-> r.squarings, calls |-> r.calls, wrote |-> r.wrote]
    /\ UNCHANGED <<enc, tamper, pz, cod>>

NextNames ==
    \/ NameEncrypt
    \/ NameRename
    \/ NameDecrypt

SpecNames == InitNames /\ [][NextNames]_vars

-----------------------------------------------------------------------------
(* Concurrent operations: goroutines that each encrypt and then decrypt a  *)
(* file of their own, or that decrypt one shared record, interleaved at    *)
(* their file reads and writes.                                            *)

Workers == 1..MaxWorkers

\* "i1", "i2", ... and the payload of each
WorkerInput(w) == <<105, 48 + w>>
WorkerPayload(w) == <<72 + w>>

\* "s", the input of the shared record
SharedInput == <<115>>
SharedPayload == <<72>>

\* fmt.Sprintf("%s.decrypted_%d", record, id)
SharedOutput(record, w) == record \o DecryptedSuffix \o <<95, 48 + w>>

InitConc ==
    /\ enc = NoEnc
    /\ tamper = "none"
    /\ dec = NoDec
    /\ cod = NoCod
    /\ \/ /\ fs = [x \in {WorkerInput(w) : w \in Workers} |->
                      WorkerPayload(CHOOSE w \in Workers : WorkerInput(w) = x)]
          /\ pz \in { [mode |-> "pairs",
                        w |-> [w \in Workers |->
                                 [pc |-> "enc_read", InputFile |-> WorkerInput(w),
                                  KeyInput |-> keys[w], local |-> <<>>,
                                  record |-> <<>>, OutputFile |-> <<>>,
                                  expect |-> WorkerPayload(w),
                                  err |-> "nil", out |-> <<>>]]] :
                        keys \in [Workers -> {<<>>, <<97>>}] }
       \/ /\ fs = (SharedInput :> SharedPayload)
          /\ pz \in { [mode |-> "shared",
                        w |-> [w \in Workers |->
                                 [pc |-> "wait", InputFile |-> SharedInput,
                                  KeyInput |-> key, local |-> <<>>,
                                  record |-> <<>>, OutputFile |-> <<>>,
                                  expect |-> SharedPayload,
                                  err |-> "nil", out |-> <<>>]]] :
                        key \in {<<>>, <<97>>} }

\* The shared record is written before the goroutines start
ConcShareEncrypt ==
    /\ pz.mode = "shared"
    /\ \A w \in Workers : pz.w[w].pc = "wait"
    /\ \E r \in EncryptFile([InputFile |-> SharedInput, WorkFactor |-> 0,
                              KeyInput |-> pz.w[1].KeyInput], fs) :
          /\ r.err = "nil"
          /\ fs' = r.fs
          /\ pz' = [pz EXCEPT !.w = [w \in Workers |->
                       [@[w] EXCEPT !.pc = "dec_read", !.record = r.OutputFile,
                                    !.OutputFile = SharedOutput(r.OutputFile, w)]]]
    /\ UNCHANGED <<enc, tamper, dec, cod>>

\* EncryptFile of worker w reads its input file
ConcEncRead(w) ==
    /\ pz.w[w].pc = "enc_read"
    /\ pz' = IF pz.w[w].InputFile \in DOMAIN fs
             THEN [pz EXCEPT !.w[w].pc = "enc_write",
                             !.w[w].local = fs[pz.w[w].InputFile]]
             ELSE [pz EXCEPT !.w[w].pc = "done", !.w[w].err = "ErrReadInput"]
    /\ UNCHANGED <<fs, enc, tamper, dec, cod>>

\* EncryptFile of worker w builds the record from what it read and writes it
ConcEncWrite(w) ==
    /\ pz.w[w].pc = "enc_write"
    /\ \E r \in EncryptFile([InputFile |-> pz.w[w].InputFile, WorkFactor |-> 0,
                              KeyInput |-> pz.w[w].KeyInput],
                             (pz.w[w].InputFile :> pz.w[w].local)) :
          IF r.err = "nil"
          THEN /\ fs' = WriteFile(fs, r.OutputFile, r.fs[r.OutputFile])
               /\ pz' = [pz EXCEPT !.w[w].pc = "dec_read", !.w[w].local = <<>>,
                                   !.w[w].record = r.OutputFile]
          ELSE /\ fs' = fs
               /\ pz' = [pz EXCEPT !.w[w].pc = "done", !.w[w].err = r.err]
    /\ UNCHANGED <<enc, tamper, dec, cod>>

\* DecryptFile of worker w reads the record
ConcDecRead(w) ==
    /\ pz.w[w].pc = "dec_read"
    /\ pz' = IF pz.w[w].record \in DOMAIN fs
             THEN [pz EXCEPT !.w[w].pc = "dec_write",
                             !.w[w].local = fs[pz.w[w].record]]
             ELSE [pz EXCEPT !.w[w].pc = "done", !.w[w].err = "ErrReadEncrypted"]
    /\ UNCHANGED <<fs, enc, tamper, dec, cod>>

\* DecryptFile of worker w solves, opens and writes its output
ConcDecWrite(w) ==
    /\ pz.w[w].pc = "dec_write"
    /\ \E r \in { DecryptFile([InputFile |-> pz.w[w].record,
                                 KeyInput |-> pz.w[w].KeyInput,
                                 OutputFile |-> pz.w[w].OutputFile], FALSE,
                                (pz.w[w].record :> pz.w[w].local)) } :
          /\ fs' = IF r.wrote THEN WriteFile(fs, r.OutputFile, r.plaintext) ELSE fs
          /\ pz' = [pz EXCEPT !.w[w].pc = "done", !.w[w].err = r.err,
                              !.w[w].out = r.OutputFile]
    /\ UNCHANGED <<enc, tamper, dec, cod>>

NextConc ==
    \/ ConcShareEncrypt
    \/ \E w \in Workers : ConcEncRead(w)
    \/ \E w \in Workers : ConcEncWrite(w)
    \/ \E w \in Workers : ConcDecRead(w)
    \/ \E w \in Workers : ConcDecWrite(w)

SpecConc == InitConc /\ [][NextConc]_vars

-----------------------------------------------------------------------------
(* The library and the command line: a file is encrypted through           *)
(* operations.EncryptFile or through cmd.EncryptCommand, then decrypted.   *)

\* --input: absent, "in", or the missing file "m"
CliInputs == { <<>>, InPath, <<109>> }

CliEncrypt ==
    /\ enc.state = "idle"
    /\ \E input \in CliInputs, work \in 0..MaxT, key \in EncryptKeyInputs :
         \E r \in EncryptCommand([input |-> input, work |-> work, key |-> key], fs) :
            /\ fs' = r.fs
            /\ enc' = [state |-> "done", err |-> r.err, WorkFactor |-> work,
                       KeyInput |-> key, userKeyRaw |-> r.userKeyRaw,
                       plaintext |-> r.plaintext, KeyRequired |-> r.KeyRequired,
                       OutputFile |-> r.OutputFile, puzzle |-> r.puzzle, priv |-> r.priv]
            /\ pz' = [state |-> "cli", input |-> input, before |-> fs]
    /\ UNCHANGED <<tamper, dec, cod>>

NextCli ==
    \/ Encrypt
    \/ CliEncrypt
    \/ Decrypt

SpecCli == Init /\ [][NextCli]_vars

-----------------------------------------------------------------------------
(* The container codec alone: a record is written, the bytes are read back *)

CodecData == UNION { [1..n -> {0, 255}] : n \in 0..MaxDataLen }

CodecRecords ==
    [Version : 0..MaxVersion,
     WorkFactor : {0, 1000},
     ModulusN : {FillBytes(15, Rsa2048Bytes)},
     BaseG : {FillBytes(2, Rsa2048Bytes), FillBytes(66000, Rsa2048Bytes)},
     KeyRequired : {0, 1},
     Salt : RandomSalts,
     KdfID : {KdfNone, KdfArgon2id},
     KdfParams : {Zeros(KdfParamsSize), EncodeKdfParams(DefaultArgon2idParams)},
     Data : CodecData]

InitCodec ==
    /\ fs = (KeyPath :> <<98>>)
    /\ enc = NoEnc
    /\ tamper = "none"
    /\ dec = NoDec
    /\ pz = NoPz
    /\ cod \in { [state |-> "record", ef |-> r] : r \in CodecRecords }

CodecWrite ==
    /\ cod.state = "record"
    /\ fs' = WriteFile(fs, LockedPath, WriteEncryptedFile(cod.ef))
    /\ cod' = [cod EXCEPT !.state = "written"]
    /\ UNCHANGED <<enc, tamper, dec, pz>>

CodecRead ==
    /\ cod.state = "written"
    /\ cod' = [cod EXCEPT !.state = "read"] @@ [rd |-> ReadEncryptedFile(fs[LockedPath])]
    /\ UNCHANGED <<fs, enc, tamper, dec, pz>>

NextCodec ==
    \/ CodecWrite
    \/ CodecRead

SpecCodec == InitCodec /\ [][NextCodec]_vars

-----------------------------------------------------------------------------
(* The codec on damaged input: the written bytes are cut short, or their   *)
(* data_len field is overwritten, before they are read back.               *)

\* The offset at which ReadEncryptedFile reads data_len: after the version 2
\* fields, or after the legacy fields when the version is below 2
LenOffset(data) ==
    IF LittleEndian(Field(data, 0, 4)) >= 2 THEN OffDataLen
    ELSE OffSalt + LegacyEncKeySize + LegacyNonceSize

\* The lengths a stored record is cut to
CutLengths ==
    {0, 2, 4, 12, OffBaseG, OffKeyRequired, OffSalt, OffKdfID, OffKdfParams,
     OffDataLen, OffDataLen + 4, OffData - 1, OffData, OffData + 1}

\* The eight bytes written over data_len: small lengths, and lengths whose
\* only non-zero byte is one of the upper six
DeclaredLens ==
    { PutLittleEndian(n, 8) : n \in 0..(MaxDataLen + 1) }
        \cup { [i \in 1..8 |-> IF i = k THEN b ELSE 0] : k \in 3..8, b \in {1, 128} }
        \cup { [i \in 1..8 |-> 255] }

CodecCut ==
    /\ cod.state = "written" /\ tamper = "none"
    /\ \E n \in CutLengths :
          /\ n < Len(fs[LockedPath])
          /\ fs' = [fs EXCEPT ![LockedPath] = SubSeq(@, 1, n)]
    /\ tamper' = "cut"
    /\ UNCHANGED <<enc, dec, pz, cod>>

CodecDeclare ==
    /\ cod.state = "written" /\ tamper = "none"
    /\ \E bytes \in DeclaredLens :
          /\ LenOffset(fs[LockedPath]) + 8 <= Len(fs[LockedPath])
          /\ Field(fs[LockedPath], LenOffset(fs[LockedPath]), 8) # bytes
          /\ fs' = [fs EXCEPT ![LockedPath] = Splice(@, LenOffset(@), bytes)]
    /\ tamper' = "data_len"
    /\ UNCHANGED <<enc, dec, pz, cod>>

CodecReadDamaged ==
    /\ cod.state = "written" /\ tamper # "none"
    /\ cod' = [cod EXCEPT !.state = "read"] @@ [rd |-> ReadEncryptedFile(fs[LockedPath])]
    /\ UNCHANGED <<fs, enc, tamper, dec, pz>>

NextDamage ==
    \/ CodecWrite
    \/ CodecCut
    \/ CodecDeclare
    \/ CodecReadDamaged

SpecDamage == InitCodec /\ [][NextDamage]_vars

-----------------------------------------------------------------------------
(* Properties *)

EncOk == enc.state = "done" /\ enc.err = "nil"
DecDone == dec.state = "done"

\* The key bytes the decryption's key input stands for
DecKey == ParseKeyInput(dec.KeyInput, fs)

\* The key DerivePuzzleKey gives for each value a target can take
PuzzleKeys == [t \in 0..MaxModulus |-> DerivePuzzleKey(t)]

\* The record as stored now
Stored == ReadEncryptedFile(fs[LockedPath])

\* C1: EncryptFile(P, T, K) followed by DecryptFile on the produced record
\* with the same key input K succeeds and writes exactly the bytes of P.
C1_RoundTrip ==
    (EncOk /\ tamper = "none" /\ DecDone /\ dec.KeyInput = enc.KeyInput)
        => /\ dec.err = "nil"
           /\ dec.plaintext = enc.plaintext
           /\ OutPath \in DOMAIN fs /\ fs[OutPath] = enc.plaintext

\* C2: the target GeneratePuzzle computes through the trapdoor, as
\* g^(2^T mod phi(N)) mod N, equals g^(2^T) mod N, and SolvePuzzle on the
\* generated puzzle returns exactly that target.
C2_TrapdoorTargetIsSolved ==
    pz.state = "solved"
        => /\ pz.puzzle.Target = Exp(pz.puzzle.G, 2 ^ pz.puzzle.T, pz.puzzle.N)
           /\ pz.solved.err = "nil"
           /\ pz.solved.result = pz.puzzle.Target

\* C2 witness: a solved puzzle whose exponent 2^T was reduced modulo phi(N)
C2_Witness ==
    /\ pz.state = "solved"
    /\ 2 ^ pz.puzzle.T >= (pz.priv.Primes[1] - 1) * (pz.priv.Primes[2] - 1)
    /\ pz.puzzle.N = pz.priv.Primes[1] * pz.priv.Primes[2]
    /\ GCD(pz.puzzle.G, pz.puzzle.N) = 1
    /\ pz.solved.result = pz.puzzle.Target
    /\ pz.solved.squarings = pz.puzzle.T

\* C3: DecryptFile with a passphrase K' on a record encrypted with another
\* passphrase K fails with the decryption-failed error and returns no
\* plaintext (stated for two non-empty keys; an empty K or K' is C5 and C6).
C3_WrongKeyFailsOpen ==
    (/\ EncOk /\ tamper = "none" /\ DecDone
     /\ enc.userKeyRaw # <<>>
     /\ DecKey.err = "nil" /\ DecKey.key # <<>> /\ DecKey.key # enc.userKeyRaw)
        => dec.err = "ErrDecryptFailed" /\ ~dec.wrote

\* C4: a record encrypted with a non-empty passphrase K, as written or with
\* one header field altered, yields its plaintext only to a decryption that
\* was given key bytes equal to K.
C4_PlaintextOnlyWithPassphrase ==
    (/\ EncOk /\ enc.userKeyRaw # <<>>
     /\ tamper \in {"none", "version", "key_required", "base_g", "salt",
                    "kdf_id", "kdf_params"}
     /\ DecDone /\ dec.err = "nil")
        => DecKey.err = "nil" /\ DecKey.key = enc.userKeyRaw

\* C5: DecryptFile on a record whose key_required is 1, called with an empty
\* key input, fails with the key-required error before any squaring, before
\* any progress callback and without writing an output file.
C5_MissingKeyFailsEarly ==
    (/\ DecDone /\ dec.KeyInput = <<>>
     /\ LockedPath \in DOMAIN fs
     /\ Stored.err = "nil" /\ Stored.ef.KeyRequired = 1)
        => /\ dec.err = "ErrKeyRequired"
           /\ dec.squarings = 0
           /\ dec.calls = <<>>
           /\ ~dec.wrote
           /\ OutPath \notin DOMAIN fs

\* C5 witness: such a call on a record with a positive work factor
C5_Witness ==
    /\ DecDone /\ dec.KeyInput = <<>>
    /\ EncOk /\ Stored.err = "nil" /\ Stored.ef.KeyRequired = 1
    /\ Stored.ef.WorkFactor > 0
    /\ dec.err = "ErrKeyRequired"

\* C6: a record encrypted with an empty key decrypts to the payload whatever
\* non-empty key input is passed; the stray key is not parsed, so an
\* @file: input naming an unreadable file does not make the call fail.
C6_StrayKeyIgnored ==
    (EncOk /\ enc.KeyInput = <<>> /\ tamper = "none" /\ DecDone /\ dec.KeyInput # <<>>)
        => /\ dec.err = "nil"
           /\ dec.plaintext = enc.plaintext
           /\ OutPath \in DOMAIN fs /\ fs[OutPath] = enc.plaintext

\* C6 witness: the stray key input names a missing file, the work factor is positive
C6_Witness ==
    /\ EncOk /\ enc.KeyInput = <<>> /\ tamper = "none" /\ DecDone
    /\ dec.KeyInput = FilePrefix \o <<109>>
    /\ ParseKeyInput(dec.KeyInput, fs).err # "nil"
    /\ enc.WorkFactor > 0 /\ Len(enc.plaintext) > 0
    /\ dec.err = "nil" /\ fs[OutPath] = enc.plaintext

\* C7: after the stored work_factor, modulus, salt or ciphertext of a record
\* was changed to a different value, DecryptFile with the original key fails;
\* no such altered record decrypts successfully.
C7_TamperedNeverDecrypts ==
    (/\ EncOk /\ tamper \in {"work_factor", "modulus", "salt", "data"}
     /\ DecDone /\ dec.KeyInput = enc.KeyInput)
        => dec.err # "nil" /\ ~dec.wrote

\* C8: with one bit of the data blob flipped, DecryptFile does not succeed
\* and writes nothing (a puzzle-only record meets the decryption-failed
\* error); DecryptData returns plaintext only for the unmodified blob under
\* the sealing key.
C8_BitFlipDetected ==
    /\ (EncOk /\ tamper = "data" /\ DecDone)
          => /\ dec.err # "nil"
             /\ enc.KeyRequired = 0 => dec.err = "ErrDecryptFailed"
             /\ ~dec.wrote
             /\ OutPath \notin DOMAIN fs
    /\ (EncOk /\ ~DecDone)
          => LET data == Stored.ef.Data
             IN \A t \in 0..MaxModulus :
                  LET opened == DecryptData(PuzzleKeys[t], data)
                  IN opened.err = "nil"
                       => /\ tamper = "none"
                          /\ t = enc.puzzle.Target
                          /\ opened.plaintext = enc.plaintext

\* C8 witness: a flipped bit in a puzzle-only record was met by the Open failure
C8_Witness ==
    /\ EncOk /\ tamper = "data" /\ DecDone
    /\ enc.KeyRequired = 0 /\ Len(enc.plaintext) > 0
    /\ dec.err = "ErrDecryptFailed"
    /\ dec.squarings = enc.WorkFactor

\* C9: for every record of the current version (2), reading the bytes
\* WriteEncryptedFile wrote succeeds and returns a record equal in every field.
C9_RoundTripV2 ==
    (cod.state = "read" /\ cod.ef.Version = CurrentVersion)
        => cod.rd.err = "nil" /\ cod.rd.ef = cod.ef

\* C9 as claimed: the same for every record, whatever its version
C9_RoundTripEveryVersion ==
    cod.state = "read" => cod.rd.err = "nil" /\ cod.rd.ef = cod.ef

\* C9 witness: a version 2 record with empty data and KDF fields read back equal
C9_Witness ==
    /\ cod.state = "read" /\ cod.ef.Version = 2
    /\ cod.ef.Data = <<>> /\ cod.ef.KdfID = KdfArgon2id
    /\ cod.ef.KdfParams # Zeros(KdfParamsSize)
    /\ cod.rd.err = "nil" /\ cod.rd.ef = cod.ef

\* C10: ReadEncryptedFile rejects every record whose version is not 1 or 2
C10_UnknownVersionRejected ==
    (cod.state = "read" /\ cod.ef.Version \notin {1, 2}) => cod.rd.err # "nil"

\* The bytes left after the data_len field of the stored record, and the
\* length that field declares
RemainingAfterLen == Len(fs[LockedPath]) - (LenOffset(fs[LockedPath]) + 8)
DeclaredDataLen == LittleEndian(Field(fs[LockedPath], LenOffset(fs[LockedPath]), 8))

\* C11: ReadEncryptedFile returns an error, and no record, for every input
\* that ends inside the fixed-size header (data_len included) and for every
\* input whose declared data_len exceeds the bytes left after that field.
C11_TruncatedRejected ==
    (/\ cod.state = "read" /\ tamper \in {"cut", "data_len"}
     /\ \/ Len(fs[LockedPath]) < 4
        \/ RemainingAfterLen < 0
        \/ DeclaredDataLen > RemainingAfterLen)
        => /\ cod.rd.err \in {"EOF", "ErrUnexpectedEOF"}
           /\ cod.rd.ef = NoEncryptedFile

\* C12: the bytes WriteEncryptedFile emits for a version 2 record are version
\* (4, little-endian), work_factor (8, little-endian), modulus_n (256),
\* base_g (256), key_required (1), salt (16), kdf_id (1), kdf_params (8),
\* data_len (8, little-endian) and data, with nothing in between: the file
\* is 558 + data_len bytes long.
C12_LayoutV2 ==
    (cod.state = "written" /\ cod.ef.Version = CurrentVersion)
        => LET b == fs[LockedPath]
               n == Len(cod.ef.Data)
           IN /\ Len(b) = 558 + n
              /\ Field(b, 0, 4) = <<2, 0, 0, 0>>
              /\ Field(b, 4, 8) = <<cod.ef.WorkFactor % 256,
                                    (cod.ef.WorkFactor \div 256) % 256, 0, 0, 0, 0, 0, 0>>
              /\ Field(b, 12, 256) = cod.ef.ModulusN
              /\ Field(b, 268, 256) = cod.ef.BaseG
              /\ Field(b, 524, 1) = <<cod.ef.KeyRequired>>
              /\ Field(b, 525, 16) = cod.ef.Salt
              /\ Field(b, 541, 1) = <<cod.ef.KdfID>>
              /\ Field(b, 542, 8) = cod.ef.KdfParams
              /\ Field(b, 550, 8) = <<n, 0, 0, 0, 0, 0, 0, 0>>
              /\ Field(b, 558, n) = cod.ef.Data

\* C12 as claimed: data_len directly follows the salt, 549 + data_len bytes
C12_LenFollowsSalt ==
    (cod.state = "written" /\ cod.ef.Version = CurrentVersion)
        => LET b == fs[LockedPath]
               n == Len(cod.ef.Data)
           IN /\ Len(b) = 549 + n
              /\ Field(b, 541, 8) = <<n, 0, 0, 0, 0, 0, 0, 0>>

\* C12 witness: a written version 2 record with a work factor above 255,
\* Argon2id parameters and two data bytes
C12_Witness ==
    /\ cod.state = "written" /\ cod.ef.Version = CurrentVersion
    /\ cod.ef.WorkFactor = 1000 /\ cod.ef.KdfID = KdfArgon2id
    /\ cod.ef.KdfParams = <<0, 1, 0, 0, 0, 0, 0, 3>>
    /\ cod.ef.Data = <<255, 0>>
    /\ Len(fs[LockedPath]) = 560
    /\ Field(fs[LockedPath], 4, 2) = <<232, 3>>

\* C13: at every point of a SolvePuzzle run with a progress callback, the
\* values passed to the callback so far are strictly increasing and lie in
\* [1, T] (none exceeds the squarings done); when the run has returned and
\* T > 0, the last value passed is exactly T.
C13_ProgressIncreasing ==
    pz.state \in {"solving", "returned"}
        => /\ \A k \in 1..Len(pz.calls) :
                 /\ 1 <= pz.calls[k] /\ pz.calls[k] <= pz.puzzle.T
                 /\ pz.calls[k] <= pz.i
           /\ \A k \in 1..(Len(pz.calls) - 1) : pz.calls[k] < pz.calls[k + 1]
           /\ (pz.state = "returned" /\ pz.puzzle.T > 0)
                 => /\ pz.calls # <<>>
                    /\ pz.calls[Len(pz.calls)] = pz.puzzle.T

\* C13 witness: a returned run of 2^20 + 1 squarings that made two calls
C13_Witness ==
    /\ pz.state = "returned" /\ pz.hasProgress
    /\ pz.puzzle.T = ProgressStep + 1 /\ pz.i = pz.puzzle.T
    /\ pz.calls = <<ProgressStep, ProgressStep + 1>>

\* C14: when a run with T > 0 has returned, the callback was invoked at least
\* once, the values it received are exactly the multiples of 2^20 up to T
\* together with T, and T was passed exactly once.
C14_ProgressValues ==
    (pz.state = "returned" /\ pz.hasProgress /\ pz.puzzle.T > 0)
        => /\ Len(pz.calls) >= 1
           /\ { pz.calls[k] : k \in 1..Len(pz.calls) }
                 = { m * ProgressStep : m \in 1..(pz.puzzle.T \div ProgressStep) }
                       \cup {pz.puzzle.T}
           /\ Cardinality({ k \in 1..Len(pz.calls) : pz.calls[k] = pz.puzzle.T }) = 1

\* C14 witness: T is itself a multiple of 2^20 and was reported once, after
\* the smaller multiples
C14_Witness ==
    /\ pz.state = "returned" /\ pz.hasProgress
    /\ pz.puzzle.T = MaxSteps * ProgressStep
    /\ Len(pz.calls) = MaxSteps
    /\ pz.calls[1] = ProgressStep
    /\ pz.calls[MaxSteps] = pz.puzzle.T

\* C15: for T = 0 GeneratePuzzle returns a puzzle with target = g, and
\* SolvePuzzle returns g with no squaring done and no progress callback made.
C15_ZeroWorkFactor ==
    /\ (pz.state \in {"generated", "solved"} /\ pz.puzzle.T = 0)
          => pz.puzzle.Target = pz.puzzle.G
    /\ (pz.state = "solved" /\ pz.puzzle.T = 0)
          => /\ pz.solved.err = "nil"
             /\ pz.solved.result = pz.puzzle.G
             /\ pz.solved.squarings = 0
             /\ pz.solved.calls = <<>>

\* C15 witness: a solved puzzle with T = 0 and a password-derived base
C15_Witness ==
    /\ pz.state = "solved" /\ pz.puzzle.T = 0
    /\ pz.password # <<>> /\ pz.puzzle.G >= 2
    /\ pz.solved.result = pz.puzzle.G /\ pz.solved.squarings = 0

\* The g0 a derivation starts from: (k mod (N - 3)) + 2, k the Argon2id output
DeriveStart ==
    (SetBytes(Argon2IDKey(pz.password, pz.salt, pz.kdfParams.Time, pz.kdfParams.Memory,
                          pz.kdfParams.Parallelism, pz.kdfParams.KeyLen).key)
        % (pz.N - 3)) + 2

\* Every call made so far returned the same g; g lies in [2, N-2], is
\* coprime to N and is the first coprime value from DeriveStart on, stepping
\* by one and wrapping from N-2 to 2
DeriveResultsRight ==
    \A k \in 1..Len(pz.results) :
        LET r == pz.results[k]
        IN /\ r.err = "nil"
           /\ r = pz.results[1]
           /\ 2 <= r.G /\ r.G <= pz.N - 2
           /\ GCD(r.G, pz.N) = 1
           /\ 2 <= DeriveStart /\ DeriveStart <= pz.N - 2
           /\ IF r.G >= DeriveStart
              THEN \A h \in DeriveStart..(r.G - 1) : GCD(h, pz.N) # 1
              ELSE \A h \in (DeriveStart..(pz.N - 2)) \cup (2..(r.G - 1)) : GCD(h, pz.N) # 1

C17_RandomCoprimeRange ==
    (pz.state \in {"generated", "solved"} /\ pz.password = <<>>)
        => /\ 2 <= pz.puzzle.G /\ pz.puzzle.G <= pz.puzzle.N - 2
           /\ GCD(pz.puzzle.G, pz.puzzle.N) = 1

\* C18: the trapdoor does not leave GeneratePuzzle: what it returns to its
\* caller holds no prime factor of N (from which phi(N) follows).
C18_TrapdoorNotReturned ==
    pz.state \in {"generated", "solved"}
        => \A i \in DOMAIN pz.priv.Primes :
              ~ /\ 1 < pz.priv.Primes[i] /\ pz.priv.Primes[i] < pz.puzzle.N
                /\ pz.puzzle.N % pz.priv.Primes[i] = 0

\* C19: decrypting a passphrase-bound record whose kdf_id is not Argon2id
\* ends in an error return: no base is derived for it, so the decryption
\* neither succeeds nor panics inside the derivation.
C19_NonArgon2idRejected ==
    ( /\ DecDone
      /\ Stored.err = "nil"
      /\ UsesPasswordBase(Stored.ef)
      /\ Stored.ef.KdfID # KdfArgon2id
      /\ DecKey.err = "nil" /\ Len(DecKey.key) > 0 )
        => dec.err \notin {"nil", "panic"}

\* The kdf fields of a generated puzzle, but for the content of its salt
KdfFieldsRight ==
    IF Len(pz.password) = 0
    THEN /\ pz.puzzle.KdfID = KdfNone
         /\ pz.puzzle.Salt = Zeros(SaltSize)
    ELSE /\ pz.puzzle.KdfID = KdfArgon2id
         /\ pz.puzzle.KdfParams = DefaultArgon2idParams
         /\ Len(pz.puzzle.Salt) = SaltSize
         /\ LET d == DeriveBaseFromPassword(pz.password, pz.puzzle.Salt,
                                            pz.puzzle.KdfParams, pz.puzzle.N)
            IN d.err = "nil" /\ pz.puzzle.G = d.G

C21_KdfParamsRoundTrip ==
    pz.state = "decoded"
        => /\ Len(pz.encoded) = 8
           /\ pz.decoded.Memory = pz.params.Memory
           /\ pz.decoded.Time = pz.params.Time
           /\ pz.decoded.Parallelism = 1
           /\ pz.decoded.KeyLen = 32
           /\ (pz.decoded = pz.params)
                 <=> (pz.params.Parallelism = 1 /\ pz.params.KeyLen = 32)

C21_Witness ==
    /\ pz.state = "decoded"
    /\ pz.params = [Memory |-> 65536, Time |-> 3, Parallelism |-> 4, KeyLen |-> 64]
    /\ pz.encoded = <<0, 1, 0, 0, 0, 0, 0, 3>>
    /\ pz.decoded = DefaultArgon2idParams

\* C22: EncryptFile on F writes F + ".locked"; DecryptFile writes to the
\* explicit output path when one is given, else to the input path with one
\* trailing ".locked" removed, else to the input path + ".decrypted"; so the
\* default decrypt output of EncryptFile's own output is F.
C22_OutputNaming ==
    /\ EncOk =>
          /\ enc.OutputFile = pz.InputFile \o <<46, 108, 111, 99, 107, 101, 100>>
          /\ ~pz.renamed => enc.OutputFile \in DOMAIN fs
    /\ (EncOk /\ DecDone) =>
          /\ dec.err = "nil" /\ dec.wrote
          /\ dec.OutputFile \in DOMAIN fs /\ fs[dec.OutputFile] = enc.plaintext
          /\ dec.explicit # <<>> => dec.OutputFile = dec.explicit
          /\ (dec.explicit = <<>> /\ HasSuffix(dec.InputFile, LockedSuffix)) =>
                /\ Len(dec.OutputFile) = Len(dec.InputFile) - 7
                /\ dec.OutputFile \o LockedSuffix = dec.InputFile
          /\ (dec.explicit = <<>> /\ ~HasSuffix(dec.InputFile, LockedSuffix)) =>
                dec.OutputFile = dec.InputFile \o DecryptedSuffix
          /\ (dec.explicit = <<>> /\ ~pz.renamed) => dec.OutputFile = pz.InputFile

\* "a.locked" is encrypted into "a.locked.locked", whose default decrypt
\* output is "a.locked" again
C22_Witness ==
    /\ EncOk /\ DecDone
    /\ pz.InputFile = <<97>> \o LockedSuffix
    /\ ~pz.renamed
    /\ dec.explicit = <<>>
    /\ dec.InputFile = <<97>> \o LockedSuffix \o LockedSuffix
    /\ dec.OutputFile = <<97>> \o LockedSuffix
    /\ dec.err = "nil"

\* C23: when every concurrent operation has ended, in any interleaving,
\* each one has succeeded and each output file holds the plaintext expected
\* for it.
C23_ConcurrentAllSucceed ==
    (\A w \in Workers : pz.w[w].pc = "done")
        => \A w \in Workers :
              /\ pz.w[w].err = "nil"
              /\ pz.w[w].out \in DOMAIN fs
              /\ fs[pz.w[w].out] = pz.w[w].expect

\* C24: EncryptFile accepts work factor 0 and writes a record with
\* work_factor = 0 that decrypts, with the same key input, to the payload
\* with no squaring; EncryptCommand with --work 0 returns an error without
\* reading the input or the key file and without writing any file.
C24_ZeroWorkLibraryAndCli ==
    /\ (enc.state = "done" /\ pz.state = "idle" /\ enc.WorkFactor = 0
           /\ ParseKeyInput(enc.KeyInput, fs).err = "nil")
          => /\ enc.err = "nil"
             /\ Stored.err = "nil" /\ Stored.ef.WorkFactor = 0
             /\ (DecDone /\ dec.KeyInput = enc.KeyInput)
                   => /\ dec.err = "nil"
                      /\ dec.plaintext = enc.plaintext
                      /\ fs[dec.OutputFile] = enc.plaintext
                      /\ dec.squarings = 0
    /\ (enc.state = "done" /\ pz.state = "cli" /\ enc.WorkFactor = 0)
          => /\ enc.err = IF pz.input = <<>> THEN "ErrInputRequired"
                          ELSE "ErrWorkRequired"
             /\ ~DecDone => fs = pz.before

\* C25: for every T of the counter's range, its largest value included,
\* SolvePuzzle returns, and it returns after exactly T squarings from g: the
\* counter and the i+1 of the progress test never wrap.  (Squaring 2 modulo
\* 15 gives 4 and then 1 for ever.)
C25_SolveTerminatesExactly ==
    /\ [](pz.done <= pz.puzzle.T /\ ~pz.wrapped /\ pz.i = pz.done)
    /\ [](pz.state = "returned"
            => /\ pz.done = pz.puzzle.T
               /\ pz.result = IF pz.puzzle.T = 0 THEN 2
                               ELSE IF pz.puzzle.T = 1 THEN 4 ELSE 1)
    /\ <>(pz.state = "returned")

C25_Witness ==
    /\ pz.state = "returned"
    /\ pz.puzzle.T = CounterModulus - 1
    /\ pz.done = CounterModulus - 1
    /\ pz.i = CounterModulus - 1
    /\ ~pz.wrapped

\* C26: during and after SolvePuzzle, and at every progress callback, the
\* puzzle's N, G, T, salt and kdf fields are what they were before the call,
\* and a second call on the same puzzle returns what the first returned.
C26_PuzzleUnchanged ==
    /\ PuzzleNow = pz.before
    /\ \A k \in 1..Len(pz.seen) : pz.seen[k] = pz.before
    /\ \A k \in 1..Len(pz.results) :
          /\ pz.results[k] = pz.results[1]
          /\ pz.results[k] = SolvePuzzle(pz.before, FALSE).result

C26_Witness ==
    /\ pz.state = "returned" /\ pz.run = 2
    /\ pz.puzzle.T = MaxT
    /\ pz.puzzle.KdfID = KdfArgon2id
    /\ Len(pz.seen) = 2
    /\ Len(pz.results) = 2
    /\ pz.results[2] # pz.before.G
    /\ PuzzleNow = pz.before

\* C27: the blob EncryptData gives for n bytes of plaintext is the 12-byte
\* nonce, n bytes of ciphertext and the 16-byte tag, n + 28 bytes in all;
\* DecryptData takes the first 12 bytes as nonce and the rest as sealed
\* input, fails on every input shorter than 12 bytes and returns no
\* plaintext for an input shorter than 28 bytes.
C27_BlobLayout ==
    /\ pz.state \in {"sealed", "opened"} =>
          LET n == Len(pz.plaintext)
              ct == SubSeq(pz.blob, 13, 12 + n)
          IN /\ Len(pz.blob) = n + 28
             /\ SubSeq(pz.blob, 1, 12) = pz.nonce
             /\ \A i \in 1..n :
                   ct[i] = Xor(pz.plaintext[i], KeyStream(pz.key, pz.nonce, i))
             /\ SubSeq(pz.blob, 13 + n, 28 + n) = Poly1305Tag(pz.key, pz.nonce, ct)
    /\ pz.state = "opened" =>
          /\ Len(pz.input) < 12 => pz.opened.err = "ErrTooShort"
          /\ Len(pz.input) < 28 =>
                pz.opened.err # "nil" /\ pz.opened.plaintext = <<>>
          /\ Len(pz.input) >= 12 =>
                pz.opened = Open(pz.key, SubSeq(pz.input, 1, 12),
                                 SubSeq(pz.input, 13, Len(pz.input)))
          /\ pz.whole =>
                pz.opened.err = "nil" /\ pz.opened.plaintext = pz.plaintext

C27_Witness ==
    /\ pz.state = "opened"
    /\ Len(pz.plaintext) = MaxDataLen
    /\ Len(pz.blob) = MaxDataLen + 28
    /\ Len(pz.input) = 27
    /\ pz.opened.err = "ErrOpen"

\* C28: a record EncryptFile wrote with a non-empty key carries kdf_id
\* Argon2id and the encoded default parameters, and the parameters
\* PuzzleFromEncryptedFile rebuilds from it for DecryptFile are the ones
\* GeneratePuzzle derived g with.
C28_StoredKdfParams ==
    (EncOk /\ tamper = "none" /\ Len(enc.userKeyRaw) > 0)
        => /\ enc.puzzle.KdfParams = DefaultArgon2idParams
           /\ Stored.err = "nil"
           /\ Stored.ef.KdfID = KdfArgon2id
           /\ Stored.ef.KdfParams = EncodeKdfParams(DefaultArgon2idParams)
           /\ PuzzleFromEncryptedFile(Stored.ef).KdfParams = enc.puzzle.KdfParams

\* C29: when DecryptFile has ended with an error the output file is as it
\* was before the call and no file was created; when it has succeeded the
\* output file holds exactly the plaintext DecryptData opened, without
\* error, from the record's data under the key of the solved puzzle.
C29_OutputOnlyAfterOpen ==
    DecDone =>
        /\ DOMAIN fs \subseteq {InPath, KeyPath, OutPath, LockedPath}
        /\ fs[InPath] \in Payloads /\ fs[KeyPath] = <<98>>
        /\ IF dec.err # "nil"
           THEN ~dec.wrote /\ fs[OutPath] = OldOutput
           ELSE /\ dec.wrote
                /\ LockedPath \in DOMAIN fs /\ Stored.err = "nil"
                /\ LET ef == Stored.ef
                       from == PuzzleFromEncryptedFile(ef)
                       key == ParseKeyInput(EffectiveKeyInput(ef, dec.KeyInput), fs).key
                       G == IF UsesPasswordBase(ef)
                            THEN DeriveBaseFromPassword(key, ef.Salt, from.KdfParams,
                                                        from.N).G
                            ELSE from.G
                       target == SolvePuzzle([from EXCEPT !.G = G], FALSE).result
                       opened == DecryptData(DerivePuzzleKey(target), ef.Data)
                   IN /\ opened.err = "nil"
                      /\ fs[OutPath] = opened.plaintext
                      /\ dec.plaintext = opened.plaintext

\* AEAD Open failed on a flipped bit and "out" still holds its old content
C29_Witness ==
    /\ DecDone
    /\ tamper = "data"
    /\ dec.err = "ErrDecryptFailed"
    /\ ~dec.wrote
    /\ fs[OutPath] = OldOutput

\* C30: on every record that ReadEncryptedFile parses, DecryptFile ends by
\* returning a result or an error: it neither aborts (a division by zero
\* among the causes) nor loops for ever, whatever the record's fields hold.
C30_DecryptAlwaysReturns ==
    (DecDone /\ LockedPath \in DOMAIN fs /\ Stored.err = "nil")
        => dec.err \notin {"panic", "hang"}

====
